---- MODULE Spec2Model ----
(***************************************************************************)
(* Regex -> postfix -> NFA (Thompson) -> DFA (subset construction) of      *)
(* automate-ui/lib/automata/regex.ts, driven by the visualizer page        *)
(* (automate-ui/app/regex/page.tsx).                                       *)
(*                                                                         *)
(* A JavaScript string is a sequence of one-character strings.  A          *)
(* JavaScript Set or Map is the sequence of its members in insertion       *)
(* order, without repetition.  null is the value null below.               *)
(***************************************************************************)
EXTENDS Integers, Sequences, FiniteSets, TLC

\* ------------------------------------------------------------------ bounds
\* every pattern of at most MaxLen characters is compiled
MaxLen == 3
\* every well-formed pattern whose parse tree has at most MaxNodes nodes
MaxNodes == 5
\* input strings run through the automata have at most MaxStrLen characters
MaxStrLen == 6
\* number of builds (selection changes) on one page
MaxBuilds == 2
\* strings matched against a parse tree have at most MaxWordLen characters
MaxWordLen == 5
MaxChunks == 2
MaxRequests == 2
MaxCalls == 3
MaxEffects == 3

\* ------------------------------------------------------------- characters
Literals == {"a", "b"}
Chars == Literals \cup {"|", "*", ".", "(", ")"}

null == "null"

RECURSIVE StringsOver(_, _)
StringsOver(A, n) ==
    IF n = 0 THEN {<<>>}
    ELSE LET S == StringsOver(A, n - 1)
         IN  S \cup {Append(s, c) : s \in {x \in S : Len(x) = n - 1}, c \in A}

InSeq(x, s) == \E i \in 1..Len(s) : s[i] = x

Pop(s) == IF Len(s) = 0 THEN s ELSE SubSeq(s, 1, Len(s) - 1)

\* samples of the page
samples == << <<"a", "|", "b">>,
              <<"a", "b", "*">>,
              <<"(", "a", "|", "b", ")", "*", "a", "b", "b">> >>

\* --------------------------------------------------- postfix conversion
isOperator(c) == c = "|" \/ c = "*" \/ c = "."

\* variant of precedence: union binds tighter than concatenation
precedenceUnionFirst(op) ==
    IF op = "*" THEN 3
    ELSE IF op = "|" THEN 2
    ELSE IF op = "." THEN 1
    ELSE 0

precedence(op) ==
    IF op = "*" THEN 3
    ELSE IF op = "." THEN 2
    ELSE IF op = "|" THEN 1
    ELSE 0

\* variant of StartsOperand: a closing parenthesis is not excluded
StartsOperandOrCloses(d) == ~(d = "*" \/ d = "|")

\* if (d === '*' || d === '|' || d === ')') continue
StartsOperand(d) == ~(d = "*" \/ d = "|" \/ d = ")")

RECURSIVE InsertFrom(_, _)
InsertFrom(re, i) ==
    IF i > Len(re) THEN <<>>
    ELSE LET c == re[i]
         IN  IF c = "(" \/ c = "|" THEN <<c>> \o InsertFrom(re, i + 1)
             ELSE IF i + 1 <= Len(re) /\ StartsOperand(re[i + 1])
                  THEN <<c, ".">> \o InsertFrom(re, i + 1)
                  ELSE <<c>> \o InsertFrom(re, i + 1)

insertConcats(re) == InsertFrom(re, 1)

\* while (ops.length && top !== '(') out.push(ops.pop())
RECURSIVE PopToParen(_, _)
PopToParen(out, ops) ==
    IF Len(ops) > 0 /\ ops[Len(ops)] # "("
    THEN PopToParen(Append(out, ops[Len(ops)]), Pop(ops))
    ELSE [out |-> out, ops |-> ops]

\* variant of PopsBefore: only strictly higher precedence is popped
PopsBeforeStrict(top, c) == isOperator(top) /\ precedence(top) > precedence(c)

PopsBefore(top, c) == isOperator(top) /\ precedence(top) >= precedence(c)

\* while (ops.length && isOperator(top) && precedence(top) >= precedence(c))
RECURSIVE PopHigher(_, _, _)
PopHigher(out, ops, c) ==
    IF Len(ops) > 0 /\ PopsBefore(ops[Len(ops)], c)
    THEN PopHigher(Append(out, ops[Len(ops)]), Pop(ops), c)
    ELSE [out |-> out, ops |-> ops]

PostfixStep(out, ops, c) ==
    IF c = "(" THEN [out |-> out, ops |-> Append(ops, c)]
    ELSE IF c = ")"
         THEN LET r == PopToParen(out, ops) IN [out |-> r.out, ops |-> Pop(r.ops)]
    ELSE IF isOperator(c)
         THEN LET r == PopHigher(out, ops, c) IN [out |-> r.out, ops |-> Append(r.ops, c)]
    ELSE [out |-> Append(out, c), ops |-> ops]

RECURSIVE PostfixScan(_, _, _, _)
PostfixScan(w, i, out, ops) ==
    IF i > Len(w) THEN [out |-> out, ops |-> ops]
    ELSE LET r == PostfixStep(out, ops, w[i]) IN PostfixScan(w, i + 1, r.out, r.ops)

\* while (ops.length) out.push(ops.pop())
RECURSIVE Flush(_, _)
Flush(out, ops) ==
    IF Len(ops) = 0 THEN out ELSE Flush(Append(out, ops[Len(ops)]), Pop(ops))

regexToPostfix(re) ==
    LET r == PostfixScan(insertConcats(re), 1, <<>>, <<>>) IN Flush(r.out, r.ops)

\* -------------------------------------------------- Thompson construction
Tr(from, to, symbol) == [from |-> from, to |-> to, symbol |-> symbol]

Frag(start, accept, states, transitions) ==
    [start |-> start, accept |-> accept, states |-> states, transitions |-> transitions]

NoNFA == Frag(0, 0, <<>>, <<>>)

\* Outcome of one token on (stack, nextStateId): the new stack, the new
\* counter, and err = "TypeError" when a property of an undefined popped
\* value is read.
Out(stack, next, err) == [stack |-> stack, next |-> next, err |-> err]

\* variant of StarToken: the edge back from n.accept goes to s
StarTokenBackToS(stack, next) ==
    IF Len(stack) < 1 THEN Out(stack, next + 2, "TypeError")
    ELSE LET n == stack[Len(stack)]
             s == next
             f == next + 1
             transitions == << Tr(s, n.start, null), Tr(s, f, null),
                               Tr(n.accept, s, null), Tr(n.accept, f, null) >>
                            \o n.transitions
         IN  Out(Append(Pop(stack), Frag(s, f, <<s, f>> \o n.states, transitions)),
                 next + 2, "none")

\* variant of StarToken: the edge from s to f is left out
StarTokenNoSkip(stack, next) ==
    IF Len(stack) < 1 THEN Out(stack, next + 2, "TypeError")
    ELSE LET n == stack[Len(stack)]
             s == next
             f == next + 1
             transitions == << Tr(s, n.start, null),
                               Tr(n.accept, n.start, null), Tr(n.accept, f, null) >>
                            \o n.transitions
         IN  Out(Append(Pop(stack), Frag(s, f, <<s, f>> \o n.states, transitions)),
                 next + 2, "none")

\* variant of StarToken: without an operand it fails before the two states
\* are allocated
StarTokenFailsBeforeAllocating(stack, next) ==
    IF Len(stack) < 1 THEN Out(stack, next, "TypeError")
    ELSE LET n == stack[Len(stack)]
             s == next
             f == next + 1
             transitions == << Tr(s, n.start, null), Tr(s, f, null),
                               Tr(n.accept, n.start, null), Tr(n.accept, f, null) >>
                            \o n.transitions
         IN  Out(Append(Pop(stack), Frag(s, f, <<s, f>> \o n.states, transitions)),
                 next + 2, "none")

StarToken(stack, next) ==
    IF Len(stack) < 1 THEN Out(stack, next + 2, "TypeError")
    ELSE LET n == stack[Len(stack)]
             s == next
             f == next + 1
             transitions == << Tr(s, n.start, null), Tr(s, f, null),
                               Tr(n.accept, n.start, null), Tr(n.accept, f, null) >>
                            \o n.transitions
         IN  Out(Append(Pop(stack), Frag(s, f, <<s, f>> \o n.states, transitions)),
                 next + 2, "none")

\* variant of ConcatToken: the states of the second operand are left out
ConcatTokenDropStates(stack, next) ==
    IF Len(stack) < 2 THEN Out(Pop(Pop(stack)), next, "TypeError")
    ELSE LET n2 == stack[Len(stack)]
             n1 == stack[Len(stack) - 1]
             transitions == n1.transitions \o n2.transitions
                            \o << Tr(n1.accept, n2.start, null) >>
         IN  Out(Append(Pop(Pop(stack)), Frag(n1.start, n2.accept, n1.states, transitions)),
                 next, "none")

\* variant of ConcatToken: the operands are taken in the order they are popped
ConcatTokenSwapped(stack, next) ==
    IF Len(stack) < 2 THEN Out(Pop(Pop(stack)), next, "TypeError")
    ELSE LET n1 == stack[Len(stack)]
             n2 == stack[Len(stack) - 1]
             transitions == n1.transitions \o n2.transitions
                            \o << Tr(n1.accept, n2.start, null) >>
             states == n1.states \o n2.states
         IN  Out(Append(Pop(Pop(stack)), Frag(n1.start, n2.accept, states, transitions)),
                 next, "none")

ConcatToken(stack, next) ==
    IF Len(stack) < 2 THEN Out(Pop(Pop(stack)), next, "TypeError")
    ELSE LET n2 == stack[Len(stack)]
             n1 == stack[Len(stack) - 1]
             transitions == n1.transitions \o n2.transitions
                            \o << Tr(n1.accept, n2.start, null) >>
             states == n1.states \o n2.states
         IN  Out(Append(Pop(Pop(stack)), Frag(n1.start, n2.accept, states, transitions)),
                 next, "none")

\* variant of UnionToken: the counter moves by one for the two new states
UnionTokenOneIncrement(stack, next) ==
    IF Len(stack) < 2 THEN Out(Pop(Pop(stack)), next + 1, "TypeError")
    ELSE LET n2 == stack[Len(stack)]
             n1 == stack[Len(stack) - 1]
             s == next
             f == next + 1
             transitions == << Tr(s, n1.start, null), Tr(s, n2.start, null),
                               Tr(n1.accept, f, null), Tr(n2.accept, f, null) >>
                            \o n1.transitions \o n2.transitions
             states == <<s, f>> \o n1.states \o n2.states
         IN  Out(Append(Pop(Pop(stack)), Frag(s, f, states, transitions)),
                 next + 1, "none")

\* variant of UnionToken: the edge from s to the second operand is left out
UnionTokenOneBranch(stack, next) ==
    IF Len(stack) < 2 THEN Out(Pop(Pop(stack)), next + 2, "TypeError")
    ELSE LET n2 == stack[Len(stack)]
             n1 == stack[Len(stack) - 1]
             s == next
             f == next + 1
             transitions == << Tr(s, n1.start, null),
                               Tr(n1.accept, f, null), Tr(n2.accept, f, null) >>
                            \o n1.transitions \o n2.transitions
             states == <<s, f>> \o n1.states \o n2.states
         IN  Out(Append(Pop(Pop(stack)), Frag(s, f, states, transitions)),
                 next + 2, "none")

UnionToken(stack, next) ==
    IF Len(stack) < 2 THEN Out(Pop(Pop(stack)), next + 2, "TypeError")
    ELSE LET n2 == stack[Len(stack)]
             n1 == stack[Len(stack) - 1]
             s == next
             f == next + 1
             transitions == << Tr(s, n1.start, null), Tr(s, n2.start, null),
                               Tr(n1.accept, f, null), Tr(n2.accept, f, null) >>
                            \o n1.transitions \o n2.transitions
             states == <<s, f>> \o n1.states \o n2.states
         IN  Out(Append(Pop(Pop(stack)), Frag(s, f, states, transitions)),
                 next + 2, "none")

\* variant of SymbolToken: one state is allocated and used as both ends
SymbolTokenOneState(stack, next, c) ==
    LET s == next
    IN  Out(Append(stack, Frag(s, s, <<s, s>>, << Tr(s, s, c) >>)), next + 1, "none")

SymbolToken(stack, next, c) ==
    LET s == next
        f == next + 1
    IN  Out(Append(stack, Frag(s, f, <<s, f>>, << Tr(s, f, c) >>)), next + 2, "none")

TokenStep(stack, next, c) ==
    IF c = "*" THEN StarToken(stack, next)
    ELSE IF c = "." THEN ConcatToken(stack, next)
    ELSE IF c = "|" THEN UnionToken(stack, next)
    ELSE SymbolToken(stack, next, c)

\* Array.from(new Set(xs)), and Set.add in a loop: first occurrences, in order
Unique(xs) ==
    LET I == {i \in 1..Len(xs) : \A j \in 1..(i - 1) : xs[j] # xs[i]}
    IN  [k \in 1..Cardinality(I) |->
            xs[CHOOSE i \in I : Cardinality({j \in I : j <= i}) = k]]

\* for (const c of postfix) { ... } from token i on
RECURSIVE TokensFrom(_, _, _, _)
TokensFrom(pf, i, stack, next) ==
    IF i > Len(pf) THEN Out(stack, next, "none")
    ELSE LET r == TokenStep(stack, next, pf[i])
         IN  IF r.err # "none" THEN r ELSE TokensFrom(pf, i + 1, r.stack, r.next)

\* postfixToNFA(postfix) called with the counter at next: ok is FALSE when
\* the call throws
postfixToNFA(pf, next) ==
    LET r == TokensFrom(pf, 1, <<>>, next)
    IN  IF r.err # "none" \/ Len(r.stack) # 1
        THEN [ok |-> FALSE, nfa |-> NoNFA, next |-> r.next]
        ELSE [ok |-> TRUE,
              nfa |-> [r.stack[1] EXCEPT !.states = Unique(r.stack[1].states)],
              next |-> r.next]

\* xs.map(f)
MapSeq(xs, f(_)) == [i \in 1..Len(xs) |-> f(xs[i])]

\* ---------------------------------------------------- subset construction
NoDFA == [start |-> 0, acceptStates |-> <<>>, states |-> <<>>, transitions |-> <<>>]

\* variant of ClosureScan: the symbol of a transition is not looked at
ClosureScanAnySymbol(trans, s, res, stack) ==
    LET hits == SelectSeq(trans, LAMBDA t : t.from = s /\ ~InSeq(t.to, res))
        new == Unique(MapSeq(hits, LAMBDA t : t.to))
    IN  [res |-> res \o new, stack |-> stack \o new]

\* inner loop of epsilonClosure: the targets of the epsilon transitions
\* leaving s that are not in res yet are added to res and pushed, in the
\* order of nfa.transitions
ClosureScan(trans, s, res, stack) ==
    LET hits == SelectSeq(trans, LAMBDA t : t.from = s /\ t.symbol = null /\ ~InSeq(t.to, res))
        new == Unique(MapSeq(hits, LAMBDA t : t.to))
    IN  [res |-> res \o new, stack |-> stack \o new]

\* while (stack.length) { const s = stack.pop(); ... }
RECURSIVE ClosureLoop(_, _, _)
ClosureLoop(trans, res, stack) ==
    IF Len(stack) = 0 THEN res
    ELSE LET r == ClosureScan(trans, stack[Len(stack)], res, Pop(stack))
         IN  ClosureLoop(trans, r.res, r.stack)

\* variant of epsilonClosure: the states found are not followed further
epsilonClosureShallow(n, stateSet) ==
    LET hits == SelectSeq(n.transitions,
                          LAMBDA t : InSeq(t.from, stateSet) /\ t.symbol = null)
    IN  Unique(stateSet \o MapSeq(hits, LAMBDA t : t.to))

epsilonClosure(n, stateSet) == ClosureLoop(n.transitions, stateSet, stateSet)

\* variant of move: every non-epsilon transition is followed, whatever its symbol
moveAnySymbol(n, stateSet, symbol) ==
    LET hits == SelectSeq(n.transitions,
                          LAMBDA t : InSeq(t.from, stateSet) /\ t.symbol # null)
    IN  Unique(MapSeq(hits, LAMBDA t : t.to))

\* for (const s of stateSet) for (const t of nfa.transitions) ...: the pairs
\* (s, t) in the order of the two loops, the matching targets added to res
move(n, stateSet, symbol) ==
    LET trans == n.transitions
        L == Len(trans)
        pairs == [p \in 1..(Len(stateSet) * L) |->
                    [s |-> stateSet[((p - 1) \div L) + 1], t |-> trans[((p - 1) % L) + 1]]]
        hits == SelectSeq(pairs, LAMBDA q : q.t.from = q.s /\ q.t.symbol = symbol)
    IN  Unique(MapSeq(hits, LAMBDA q : q.t.to))

\* variant of Alphabet: a list, a symbol is added once per transition
AlphabetWithRepeats(n) ==
    MapSeq(SelectSeq(n.transitions, LAMBDA t : t.symbol # null), LAMBDA t : t.symbol)

\* for (const t of nfa.transitions) if (t.symbol !== null) alphabet.add(t.symbol)
Alphabet(n) ==
    Unique(MapSeq(SelectSeq(n.transitions, LAMBDA t : t.symbol # null), LAMBDA t : t.symbol))

\* decimal text of a state id, as template literals and join() produce it
DigitChars == <<"0", "1", "2", "3", "4", "5", "6", "7", "8", "9">>

RECURSIVE Digits(_)
Digits(n) ==
    IF n < 10 THEN << DigitChars[n + 1] >>
    ELSE Append(Digits(n \div 10), DigitChars[(n % 10) + 1])

RECURSIVE Join(_)
Join(xs) ==
    IF Len(xs) = 0 THEN <<>>
    ELSE IF Len(xs) = 1 THEN Digits(xs[1])
    ELSE Join(Pop(xs)) \o <<",">> \o Digits(xs[Len(xs)])

SortAscending(xs) == SortSeq(xs, LAMBDA a, b : a < b)

\* variant of keyOf: the ids are joined in the order they were found
keyOfUnsorted(set) == Join(set)

keyOf(set) == Join(SortAscending(set))

DigitValue(ch) == CHOOSE d \in 0..9 : DigitChars[d + 1] = ch

\* k.split(',').map((x) => Number(x)), for k # ''
RECURSIVE SplitNumbers(_, _, _, _)
SplitNumbers(k, i, cur, parts) ==
    IF i > Len(k) THEN Append(parts, cur)
    ELSE IF k[i] = "," THEN SplitNumbers(k, i + 1, 0, Append(parts, cur))
    ELSE SplitNumbers(k, i + 1, cur * 10 + DigitValue(k[i]), parts)

PartsOf(k) == IF k = <<>> THEN <<>> ELSE SplitNumbers(k, 1, 0, <<>>)

\* dfaStatesMap: entries [k, id] in insertion order
MapHas(map, k) == \E i \in 1..Len(map) : map[i].k = k

MapGet(map, k) == map[CHOOSE i \in 1..Len(map) : map[i].k = k].id

Sub(map, list, transitions) == [map |-> map, list |-> list, transitions |-> transitions]

\* variant of SymbolStep: an empty move is not skipped
SymbolStepTrap(n, st, fromId, currentSet, sym) ==
    LET moved == move(n, currentSet, sym)
        closure == epsilonClosure(n, moved)
        k == keyOf(closure)
        isNew == ~MapHas(st.map, k)
        map2 == IF isNew THEN Append(st.map, [k |-> k, id |-> Len(st.list)]) ELSE st.map
        list2 == IF isNew THEN Append(st.list, closure) ELSE st.list
        toId == MapGet(map2, k)
    IN  Sub(map2, list2, Append(st.transitions, Tr(fromId, toId, sym)))

\* body of: for (const sym of alphabet) { ... }
SymbolStep(n, st, fromId, currentSet, sym) ==
    LET moved == move(n, currentSet, sym)
    IN  IF Len(moved) = 0 THEN st
        ELSE LET closure == epsilonClosure(n, moved)
                 k == keyOf(closure)
                 isNew == ~MapHas(st.map, k)
                 map2 == IF isNew THEN Append(st.map, [k |-> k, id |-> Len(st.list)])
                         ELSE st.map
                 list2 == IF isNew THEN Append(st.list, closure) ELSE st.list
                 toId == MapGet(map2, k)
             IN  Sub(map2, list2, Append(st.transitions, Tr(fromId, toId, sym)))

RECURSIVE SymbolLoop(_, _, _, _, _, _)
SymbolLoop(n, st, fromId, currentSet, alphabet, i) ==
    IF i > Len(alphabet) THEN st
    ELSE SymbolLoop(n, SymbolStep(n, st, fromId, currentSet, alphabet[i]),
                    fromId, currentSet, alphabet, i + 1)

\* variant of AcceptScan: only the first part of the key is compared
AcceptScanFirstPart(map, accept) ==
    MapSeq(SelectSeq(map, LAMBDA e : Len(PartsOf(e.k)) > 0 /\ PartsOf(e.k)[1] = accept),
           LAMBDA e : e.id)

\* for (const [k, id] of dfaStatesMap.entries()) if (parts.includes(nfa.accept)) ...
AcceptScan(map, accept) ==
    MapSeq(SelectSeq(map, LAMBDA e : InSeq(accept, PartsOf(e.k))), LAMBDA e : e.id)

\* while (idx < dfaStatesList.length) { ... } from entry idx on
RECURSIVE SubsetLoop(_, _, _, _)
SubsetLoop(n, alphabet, st, idx) ==
    IF idx >= Len(st.list) THEN st
    ELSE LET currentSet == st.list[idx + 1]
             fromId == MapGet(st.map, keyOf(currentSet))
         IN  SubsetLoop(n, alphabet,
                        SymbolLoop(n, st, fromId, currentSet, alphabet, 1), idx + 1)

\* nfaToDfa(nfa)
nfaToDfa(n) ==
    LET startClosure == epsilonClosure(n, << n.start >>)
        st == SubsetLoop(n, Alphabet(n),
                         Sub(<< [k |-> keyOf(startClosure), id |-> 0] >>,
                             << startClosure >>, <<>>), 0)
    IN  [start |-> 0,
         acceptStates |-> AcceptScan(st.map, n.accept),
         states |-> [i \in 1..Len(st.list) |-> i - 1],
         transitions |-> st.transitions]

\* ------------------------------------------------------------ graph export
epsilonGlyph == "epsilon"

\* variant of TransitionLine: the symbol is written as it is, null included
TransitionLineRawSymbol(t) ==
    <<"  ">> \o Digits(t.from) \o <<" -> ">> \o Digits(t.to)
    \o <<" [label=\"", t.symbol, "\"];">>

TransitionLine(t) ==
    <<"  ">> \o Digits(t.from) \o <<" -> ">> \o Digits(t.to)
    \o <<" [label=\"", (IF t.symbol = null THEN epsilonGlyph ELSE t.symbol), "\"];">>

AcceptLine(s) == <<"  ">> \o Digits(s) \o <<" [shape=doublecircle];">>

AcceptLines(states, acc) ==
    MapSeq(SelectSeq(states, LAMBDA s : InSeq(s, acc)), AcceptLine)

TransitionLines(trans) == MapSeq(trans, TransitionLine)

DotText(name, start, states, acc, trans) ==
    << <<"digraph ", name, " {">>, <<"  rankdir=LR;">>, <<"  node [shape = circle];">>,
       <<"  start [shape=point];">>, <<"  start -> ">> \o Digits(start) \o <<";">> >>
    \o AcceptLines(states, acc) \o TransitionLines(trans) \o << <<"}">> >>

\* variant of nfaToDot: the marker is put on the start state
nfaToDotMarksStart(n) == DotText("NFA", n.start, n.states, << n.start >>, n.transitions)

nfaToDot(n) == DotText("NFA", n.start, n.states, << n.accept >>, n.transitions)

dfaToDot(d) == DotText("DFA", d.start, d.states, d.acceptStates, d.transitions)

\* ------------------------------------------------------ well-formed patterns
\* Parse trees of the grammar
\*   alt ::= cat | alt '|' cat     cat ::= rep | cat rep
\*   rep ::= atom | rep '*'        atom ::= literal | '(' alt ')'
\* with exactly n nodes: <<"lit", c>>, <<"grp", t>>, <<"star", t>>,
\* <<"cat", l, r>>, <<"alt", l, r>>.
RECURSIVE AtomTrees(_), RepTrees(_), CatTrees(_), AltTrees(_)
AtomTrees(n) ==
    IF n = 1 THEN {<<"lit", c>> : c \in Literals}
    ELSE {<<"grp", t>> : t \in AltTrees(n - 1)}

RepTrees(n) ==
    AtomTrees(n) \cup (IF n > 1 THEN {<<"star", t>> : t \in RepTrees(n - 1)} ELSE {})

CatTrees(n) ==
    RepTrees(n) \cup
    UNION {{<<"cat", l, r>> : l \in CatTrees(i), r \in RepTrees(n - 1 - i)} : i \in 1..(n - 2)}

AltTrees(n) ==
    CatTrees(n) \cup
    UNION {{<<"alt", l, r>> : l \in AltTrees(i), r \in CatTrees(n - 1 - i)} : i \in 1..(n - 2)}

WellFormedTrees == UNION {AltTrees(n) : n \in 1..MaxNodes}

RECURSIVE Render(_)
Render(t) ==
    IF t[1] = "lit" THEN << t[2] >>
    ELSE IF t[1] = "grp" THEN <<"(">> \o Render(t[2]) \o <<")">>
    ELSE IF t[1] = "star" THEN Render(t[2]) \o <<"*">>
    ELSE IF t[1] = "cat" THEN Render(t[2]) \o Render(t[3])
    ELSE Render(t[2]) \o <<"|">> \o Render(t[3])

SampleSet == {samples[i] : i \in 1..Len(samples)}

\* the parse trees of the three samples
sampleTrees ==
    LET a == <<"lit", "a">>
        b == <<"lit", "b">>
    IN  << <<"alt", a, b>>,
           <<"cat", a, <<"star", b>>>>,
           <<"cat", <<"cat", <<"cat", <<"star", <<"grp", <<"alt", a, b>>>>>>, a>>, b>>, b>> >>

Trees == WellFormedTrees \cup {sampleTrees[i] : i \in 1..Len(sampleTrees)}

Patterns == StringsOver(Chars, MaxLen) \cup {Render(t) : t \in Trees} \cup SampleSet

\* ------------------------------------------------------------------- state
VARIABLES
    nextStateId,     \* the module-level id counter
    re,              \* samples[selectedIndex], the pattern being compiled
    pc,              \* position in the artifact computation of the page
    postfix,         \* result of regexToPostfix
    stack,           \* postfixToNFA: fragment stack
    pos,             \* postfixToNFA: index of the next postfix token
    nfa,             \* result of postfixToNFA
    alphabet,        \* nfaToDfa: alphabet
    dfaStatesMap,    \* nfaToDfa: key -> DFA id
    dfaStatesList,   \* nfaToDfa: DFA id -> NFA subset
    transitions,     \* nfaToDfa: DFA transitions
    idx,             \* nfaToDfa: worklist index (0-based)
    dfa,             \* result of nfaToDfa
    nfaDot,          \* result of nfaToDot
    dfaDot,          \* result of dfaToDot
    err,             \* "none" or the error thrown by the build
    history          \* finished builds of this page, oldest first

\* the API server (server.js)
VARIABLES
    phase,           \* position of the server in the handling of a request
    served,          \* requests that have arrived so far
    content,         \* what the text of the request body is
    chunksLeft,      \* 'data' events still to come
    bodyLength,      \* body.length
    trace,           \* responses, file writes and script runs of this request
    csvExists        \* top_candidates.csv is in the backend directory

pageVars == <<nextStateId, re, pc, postfix, stack, pos, nfa, alphabet, dfaStatesMap,
              dfaStatesList, transitions, idx, dfa, nfaDot, dfaDot, err, history>>

serverVars == <<phase, served, content, chunksLeft, bodyLength, trace, csvExists>>

\* calls of the library one after another, in any order
VARIABLES
    calls,           \* calls made so far
    allocated,       \* newState() calls executed since the last resetIds()
    returned,        \* the NFAs postfixToNFA returned since the last resetIds()
    last             \* the last call: its name, argument, the counter before, its result

\* one RegexVisualizer component
VARIABLES
    effects,         \* the effects started so far: dot, the mounted flag, the progress
    refCurrent,      \* ref.current is the container (it is null after the unmount)
    container        \* what the container shows, and who wrote it

callVars == <<calls, allocated, returned, last>>

viewVars == <<effects, refCurrent, container>>

vars == <<pageVars, serverVars, callVars, viewVars>>

thompsonVars == <<stack, pos, nfa>>
subsetVars == <<alphabet, dfaStatesMap, dfaStatesList, transitions, idx, dfa>>
dotVars == <<nfaDot, dfaDot>>

StackLengthError == "Invalid regex/postfix; stack length != 1"

Built(r, ok, n, d) == [re |-> r, ok |-> ok, nfa |-> n, dfa |-> d]

\* what JSON.parse(body || '{}') can meet: an empty body, a text that is
\* not JSON, the JSON text null, another JSON value without properties, or an
\* object whose good and bad are each missing, not an array, an empty array
\* or an array with items
Fields == {"missing", "notArray", "empty", "items"}

Content(json, good, bad) == [json |-> json, good |-> good, bad |-> bad]

Contents ==
    {Content(j, "missing", "missing") : j \in {"invalid", "null", "scalar"}}
    \cup {Content("object", g, b) : g \in Fields, b \in Fields}

EmptyBody == Content("empty", "missing", "missing")

\* the server after server.listen: no request yet
ServerInit ==
    /\ phase = "idle"
    /\ served = 0
    /\ content = EmptyBody
    /\ chunksLeft = 0
    /\ bodyLength = 0
    /\ trace = <<>>

\* the page before its first artifact computation
PageInit ==
    /\ nextStateId = 0
    /\ pc = "resetIds"
    /\ postfix = <<>>
    /\ stack = <<>>
    /\ pos = 1
    /\ nfa = NoNFA
    /\ alphabet = <<>>
    /\ dfaStatesMap = <<>>
    /\ dfaStatesList = <<>>
    /\ transitions = <<>>
    /\ idx = 0
    /\ dfa = NoDFA
    /\ nfaDot = <<>>
    /\ dfaDot = <<>>
    /\ err = "none"
    /\ history = <<>>

Call(name, arg, start, ok, out) ==
    [call |-> name, arg |-> arg, start |-> start, ok |-> ok, out |-> out]

\* the module is loaded (let nextStateId = 0), nothing is called yet
CallsInit ==
    /\ calls = 0
    /\ allocated = 0
    /\ returned = <<>>
    /\ last = Call("none", <<>>, 0, TRUE, <<>>)

Effect(dot, mounted, state) == [dot |-> dot, mounted |-> mounted, state |-> state]

\* the container's content: its kind, the effect that wrote it (0 for the
\* empty div) and whether that effect was the current one when it wrote
Shown(kind, by, current) == [kind |-> kind, by |-> by, current |-> current]

\* the values of the dot prop
Dots == {"dot1", "dot2"}

\* the component is mounted with its first dot: the div is empty and the
\* first effect has started its asynchronous render
ViewInit ==
    /\ effects = << Effect("dot1", TRUE, "pending") >>
    /\ refCurrent = TRUE
    /\ container = Shown("empty", 0, TRUE)

Init ==
    /\ re \in Patterns
    /\ PageInit
    /\ ServerInit
    /\ csvExists = FALSE
    /\ CallsInit
    /\ ViewInit

\* variant of ResetIds: the counter keeps its value
ResetIdsSkipped ==
    /\ pc = "resetIds"
    /\ nextStateId' = nextStateId
    /\ pc' = "regexToPostfix"
    /\ UNCHANGED <<serverVars, callVars, viewVars, re, postfix, thompsonVars, subsetVars, dotVars, err, history>>

\* resetIds()
ResetIds ==
    /\ pc = "resetIds"
    /\ nextStateId' = 0
    /\ pc' = "regexToPostfix"
    /\ UNCHANGED <<serverVars, callVars, viewVars, re, postfix, thompsonVars, subsetVars, dotVars, err, history>>

\* const postfix = regexToPostfix(re)
RegexToPostfix ==
    /\ pc = "regexToPostfix"
    /\ postfix' = regexToPostfix(re)
    /\ pc' = "postfixToNFA"
    /\ UNCHANGED <<serverVars, callVars, viewVars, nextStateId, re, thompsonVars, subsetVars, dotVars, err, history>>

\* variant of PostfixToNFABegin: the stack of the previous call is kept
PostfixToNFABeginStale ==
    /\ pc = "postfixToNFA"
    /\ pos' = 1
    /\ pc' = "tokens"
    /\ UNCHANGED <<serverVars, callVars, viewVars, nextStateId, re, postfix, stack, nfa, subsetVars, dotVars, err, history>>

\* postfixToNFA: const stack = []
PostfixToNFABegin ==
    /\ pc = "postfixToNFA"
    /\ stack' = <<>>
    /\ pos' = 1
    /\ pc' = "tokens"
    /\ UNCHANGED <<serverVars, callVars, viewVars, nextStateId, re, postfix, nfa, subsetVars, dotVars, err, history>>

\* postfixToNFA: one iteration of for (const c of postfix)
Token ==
    /\ pc = "tokens"
    /\ pos <= Len(postfix)
    /\ LET r == TokenStep(stack, nextStateId, postfix[pos])
       IN  /\ stack' = r.stack
           /\ nextStateId' = r.next
           /\ err' = r.err
           /\ pos' = pos + 1
           /\ pc' = IF r.err = "none" THEN "tokens" ELSE "failed"
           /\ history' = IF r.err = "none" THEN history
                         ELSE Append(history, Built(re, FALSE, NoNFA, NoDFA))
    /\ UNCHANGED <<serverVars, callVars, viewVars, re, postfix, nfa, subsetVars, dotVars>>

\* postfixToNFA: the stack-length test, the normalisation of states, return
PostfixToNFAEnd ==
    /\ pc = "tokens"
    /\ pos > Len(postfix)
    /\ IF Len(stack) # 1
       THEN /\ err' = StackLengthError
            /\ pc' = "failed"
            /\ history' = Append(history, Built(re, FALSE, NoNFA, NoDFA))
            /\ UNCHANGED <<stack, nfa>>
       ELSE /\ nfa' = [stack[1] EXCEPT !.states = Unique(stack[1].states)]
            /\ stack' = << nfa' >>
            /\ pc' = "nfaToDfa"
            /\ UNCHANGED <<err, history>>
    /\ UNCHANGED <<serverVars, callVars, viewVars, nextStateId, re, postfix, pos, subsetVars, dotVars>>

\* variant of NfaToDfaBegin: state 0 is the start state alone
NfaToDfaBeginNoClosure ==
    /\ pc = "nfaToDfa"
    /\ LET startClosure == << nfa.start >>
       IN  /\ alphabet' = Alphabet(nfa)
           /\ dfaStatesMap' = << [k |-> keyOf(startClosure), id |-> 0] >>
           /\ dfaStatesList' = << startClosure >>
    /\ transitions' = <<>>
    /\ idx' = 0
    /\ pc' = "subsets"
    /\ UNCHANGED <<serverVars, callVars, viewVars, nextStateId, re, postfix, thompsonVars, dfa, dotVars, err, history>>

\* nfaToDfa: alphabet, start closure, state 0
NfaToDfaBegin ==
    /\ pc = "nfaToDfa"
    /\ LET startClosure == epsilonClosure(nfa, << nfa.start >>)
       IN  /\ alphabet' = Alphabet(nfa)
           /\ dfaStatesMap' = << [k |-> keyOf(startClosure), id |-> 0] >>
           /\ dfaStatesList' = << startClosure >>
    /\ transitions' = <<>>
    /\ idx' = 0
    /\ pc' = "subsets"
    /\ UNCHANGED <<serverVars, callVars, viewVars, nextStateId, re, postfix, thompsonVars, dfa, dotVars, err, history>>

\* nfaToDfa: one iteration of while (idx < dfaStatesList.length)
Subset ==
    /\ pc = "subsets"
    /\ idx < Len(dfaStatesList)
    /\ LET currentSet == dfaStatesList[idx + 1]
           fromId == MapGet(dfaStatesMap, keyOf(currentSet))
           r == SymbolLoop(nfa, Sub(dfaStatesMap, dfaStatesList, transitions),
                           fromId, currentSet, alphabet, 1)
       IN  /\ dfaStatesMap' = r.map
           /\ dfaStatesList' = r.list
           /\ transitions' = r.transitions
    /\ idx' = idx + 1
    /\ UNCHANGED <<serverVars, callVars, viewVars, nextStateId, re, pc, postfix, thompsonVars, alphabet, dfa, dotVars,
                   err, history>>

\* variant of NfaToDfaEnd: the loop is left only when idx is past the length
NfaToDfaEndLate ==
    /\ pc = "subsets"
    /\ idx > Len(dfaStatesList)
    /\ dfa' = [start |-> 0,
               acceptStates |-> AcceptScan(dfaStatesMap, nfa.accept),
               states |-> [i \in 1..Len(dfaStatesList) |-> i - 1],
               transitions |-> transitions]
    /\ pc' = "nfaToDot"
    /\ UNCHANGED <<serverVars, callVars, viewVars, nextStateId, re, postfix, thompsonVars, alphabet, dfaStatesMap,
                   dfaStatesList, transitions, idx, dotVars, err, history>>

\* nfaToDfa: accept states, return
NfaToDfaEnd ==
    /\ pc = "subsets"
    /\ idx >= Len(dfaStatesList)
    /\ dfa' = [start |-> 0,
               acceptStates |-> AcceptScan(dfaStatesMap, nfa.accept),
               states |-> [i \in 1..Len(dfaStatesList) |-> i - 1],
               transitions |-> transitions]
    /\ pc' = "nfaToDot"
    /\ UNCHANGED <<serverVars, callVars, viewVars, nextStateId, re, postfix, thompsonVars, alphabet, dfaStatesMap,
                   dfaStatesList, transitions, idx, dotVars, err, history>>

\* const nfaDot = nfaToDot(nfa)
NfaToDot ==
    /\ pc = "nfaToDot"
    /\ nfaDot' = nfaToDot(nfa)
    /\ pc' = "dfaToDot"
    /\ UNCHANGED <<serverVars, callVars, viewVars, nextStateId, re, postfix, thompsonVars, subsetVars, dfaDot, err, history>>

\* const dfaDot = dfaToDot(dfa); return { re, postfix, nfaDot, dfaDot }
DfaToDot ==
    /\ pc = "dfaToDot"
    /\ dfaDot' = dfaToDot(dfa)
    /\ pc' = "done"
    /\ history' = Append(history, Built(re, TRUE, nfa, dfa))
    /\ UNCHANGED <<serverVars, callVars, viewVars, nextStateId, re, postfix, thompsonVars, subsetVars, nfaDot, err>>

\* the list the page selects from: the three samples, or the stored
\* candidates (here one candidate)
Candidates(r) == IF r \in SampleSet THEN SampleSet ELSE {r}

\* a change of samples or selectedIndex: the artifact is computed again, for
\* the same pattern or for another pattern of the list
Select ==
    /\ pc = "done"
    /\ Len(history) < MaxBuilds
    /\ re' \in Candidates(re)
    /\ pc' = "resetIds"
    /\ UNCHANGED <<serverVars, callVars, viewVars, nextStateId, postfix, thompsonVars, subsetVars, dotVars, err, history>>

Next ==
    \/ ResetIds
    \/ RegexToPostfix
    \/ PostfixToNFABegin
    \/ Token
    \/ PostfixToNFAEnd
    \/ NfaToDfaBegin
    \/ Subset
    \/ NfaToDfaEnd
    \/ NfaToDot
    \/ DfaToDot
    \/ Select

Spec == Init /\ [][Next]_vars

\* nfaToDfa is synchronous: once called, its next statement is executed.
\* NfaToDfaBegin and Subset are enabled exactly when NfaToDfaRuns holds
\* (each changes pc or idx), so their weak fairness is written with
\* NfaToDfaRuns in the place of ENABLED.
NfaToDfaRuns == pc = "nfaToDfa" \/ (pc = "subsets" /\ idx < Len(dfaStatesList))

SpecFair ==
    /\ Spec
    /\ WF_vars(NfaToDfaEnd)
    /\ (<>[]NfaToDfaRuns => []<><<NfaToDfaBegin \/ Subset>>_vars)

\* ------------------------------------------------------- POST /score server
BodyLimit == 1000000

ChunkSizes == {400000, 700000}

Event(ev, arg, code) == [ev |-> ev, arg |-> arg, code |-> code]

Responded == \E i \in 1..Len(trace) : trace[i].ev = "respond"

\* res.writeHead(code); res.end(...); return.  writeHead throws when a
\* response was already sent, and nothing catches it.
Respond(code) ==
    IF Responded
    THEN /\ phase' = "crashed"
         /\ UNCHANGED trace
    ELSE /\ phase' = "closed"
         /\ trace' = Append(trace, Event("respond", "", code))

\* a step that is followed by a response in the same handler
StepThenRespond(events, code) ==
    IF Responded
    THEN /\ phase' = "crashed"
         /\ trace' = trace \o events
    ELSE /\ phase' = "closed"
         /\ trace' = (trace \o events) \o << Event("respond", "", code) >>

\* a POST /score request reaches the server: body = '', the listeners are set
Arrive ==
    /\ phase \in {"idle", "closed"}
    /\ served < MaxRequests
    /\ served' = served + 1
    /\ chunksLeft' \in 0..MaxChunks
    /\ content' \in IF chunksLeft' = 0 THEN {EmptyBody} ELSE Contents
    /\ bodyLength' = 0
    /\ trace' = <<>>
    /\ phase' = "collecting"
    /\ UNCHANGED <<pageVars, callVars, viewVars, csvExists>>

\* req.on('data'): body += chunk, 413 and destroy when body.length > 1e6.
\* After the destroy either nothing more is delivered, or, when this was the
\* last chunk of the message, 'end' is still delivered.
Data ==
    /\ phase = "collecting"
    /\ chunksLeft > 0
    /\ chunksLeft' = chunksLeft - 1
    /\ \E size \in ChunkSizes : bodyLength' = bodyLength + size
    /\ IF bodyLength' > BodyLimit
       THEN /\ trace' = Append(trace, Event("respond", "", 413))
            /\ phase' \in IF chunksLeft' = 0 THEN {"closed", "collecting"} ELSE {"closed"}
       ELSE UNCHANGED <<phase, trace>>
    /\ UNCHANGED <<pageVars, callVars, viewVars, served, content, csvExists>>

\* req.on('end'), up to the test of good and bad
End ==
    /\ phase = "collecting"
    /\ chunksLeft = 0
    /\ IF content.json = "invalid"
       THEN Respond(400)
       ELSE IF content.json = "null"
       THEN /\ phase' = "crashed"
            /\ UNCHANGED trace
       ELSE IF content.good # "items" \/ content.bad # "items"
       THEN Respond(400)
       ELSE /\ phase' = "write"
            /\ UNCHANGED trace
    /\ UNCHANGED <<pageVars, callVars, viewVars, served, content, chunksLeft, bodyLength, csvExists>>

\* the two fs.writeFileSync calls in one try block
WriteFiles ==
    /\ phase = "write"
    /\ \/ /\ trace' = trace \o << Event("write", "good.txt", 0), Event("write", "bad.txt", 0) >>
          /\ phase' = "generator"
       \/ StepThenRespond(<< Event("write", "good.txt", 0) >>, 500)
       \/ StepThenRespond(<<>>, 500)
    /\ UNCHANGED <<pageVars, callVars, viewVars, served, content, chunksLeft, bodyLength, csvExists>>

\* spawnSync of generate_candidates.py and the tests of gen.error, gen.status
RunGenerator ==
    /\ phase = "generator"
    /\ \/ /\ trace' = Append(trace, Event("run", "generator", 0))
          /\ phase' = "scorer"
       \/ StepThenRespond(<< Event("run", "generator", 1) >>, 500)
       \/ StepThenRespond(<< Event("spawn error", "generator", 0) >>, 500)
    /\ UNCHANGED <<pageVars, callVars, viewVars, served, content, chunksLeft, bodyLength, csvExists>>

\* spawnSync of score_candidates.py and the tests of sc.error, sc.status
RunScorer ==
    /\ phase = "scorer"
    /\ \/ /\ trace' = Append(trace, Event("run", "scorer", 0))
          /\ phase' = "csv"
          /\ csvExists' \in {csvExists, TRUE}
       \/ /\ StepThenRespond(<< Event("run", "scorer", 1) >>, 500)
          /\ UNCHANGED csvExists
       \/ /\ StepThenRespond(<< Event("spawn error", "scorer", 0) >>, 500)
          /\ UNCHANGED csvExists
    /\ UNCHANGED <<pageVars, callVars, viewVars, served, content, chunksLeft, bodyLength>>

\* the test of fs.existsSync(csvPath), the rows, the 200 response
ReadCsv ==
    /\ phase = "csv"
    /\ IF csvExists THEN Respond(200) ELSE Respond(500)
    /\ UNCHANGED <<pageVars, callVars, viewVars, served, content, chunksLeft, bodyLength, csvExists>>

NextScore ==
    \/ Arrive
    \/ Data
    \/ End
    \/ WriteFiles
    \/ RunGenerator
    \/ RunScorer
    \/ ReadCsv

\* the server is started in a backend directory that may or may not hold a
\* top_candidates.csv of an earlier run
InitScore ==
    /\ re = samples[1]
    /\ PageInit
    /\ ServerInit
    /\ csvExists \in BOOLEAN
    /\ CallsInit
    /\ ViewInit

SpecScore == InitScore /\ [][NextScore]_vars

\* ------------------------------------------------ calls without the page
\* the page's variables other than the counter
pageRest == <<re, pc, postfix, thompsonVars, subsetVars, dotVars, err, history>>

\* the postfix strings postfixToNFA is called with: some that compile, some
\* that fail on an operator without operands, some that leave a wrong stack
PostfixInputs ==
    { <<"a">>, <<"a", "b", ".">>, <<"a", "b", "|">>, <<"a", "*">>,
      <<"*">>, <<"a", "|">>, <<"a", "b">>, <<>> }

\* the patterns regexToPostfix is called with
PatternInputs == { <<"a", "b">>, <<"a", "|", "b">>, <<"(">> }

\* the number of newState() calls postfixToNFA executes from token i on, the
\* stack holding depth fragments: two per symbol, two per '*' and '|' (also
\* when the operands are missing: the error comes after the allocation),
\* none for '.'
RECURSIVE AllocScan(_, _, _, _)
AllocScan(pf, i, depth, count) ==
    IF i > Len(pf) THEN count
    ELSE IF pf[i] = "*"
         THEN IF depth < 1 THEN count + 2 ELSE AllocScan(pf, i + 1, depth, count + 2)
    ELSE IF pf[i] = "."
         THEN IF depth < 2 THEN count ELSE AllocScan(pf, i + 1, depth - 1, count)
    ELSE IF pf[i] = "|"
         THEN IF depth < 2 THEN count + 2 ELSE AllocScan(pf, i + 1, depth - 1, count + 2)
    ELSE AllocScan(pf, i + 1, depth + 1, count + 2)

\* resetIds()
CallResetIds ==
    /\ calls < MaxCalls
    /\ calls' = calls + 1
    /\ nextStateId' = 0
    /\ allocated' = 0
    /\ returned' = <<>>
    /\ last' = Call("resetIds", <<>>, nextStateId, TRUE, <<>>)
    /\ UNCHANGED <<pageRest, serverVars, viewVars>>

\* regexToPostfix(re)
CallRegexToPostfix ==
    /\ calls < MaxCalls
    /\ calls' = calls + 1
    /\ \E r \in PatternInputs :
          last' = Call("regexToPostfix", r, nextStateId, TRUE, regexToPostfix(r))
    /\ UNCHANGED <<nextStateId, allocated, returned, pageRest, serverVars, viewVars>>

\* postfixToNFA(postfix), returning or throwing
CallPostfixToNFA ==
    /\ calls < MaxCalls
    /\ calls' = calls + 1
    /\ \E pf \in PostfixInputs :
          LET r == postfixToNFA(pf, nextStateId)
          IN  /\ nextStateId' = r.next
              /\ allocated' = allocated + AllocScan(pf, 1, 0, 0)
              /\ returned' = IF r.ok THEN Append(returned, r.nfa) ELSE returned
              /\ last' = Call("postfixToNFA", pf, nextStateId, r.ok, r.nfa)
    /\ UNCHANGED <<pageRest, serverVars, viewVars>>

\* nfaToDfa(nfa) on an NFA returned before
CallNfaToDfa ==
    /\ calls < MaxCalls
    /\ calls' = calls + 1
    /\ \E i \in 1..Len(returned) :
          last' = Call("nfaToDfa", <<>>, nextStateId, TRUE, nfaToDfa(returned[i]))
    /\ UNCHANGED <<nextStateId, allocated, returned, pageRest, serverVars, viewVars>>

\* nfaToDot(nfa) on an NFA returned before
CallNfaToDot ==
    /\ calls < MaxCalls
    /\ calls' = calls + 1
    /\ \E i \in 1..Len(returned) :
          last' = Call("nfaToDot", <<>>, nextStateId, TRUE, nfaToDot(returned[i]))
    /\ UNCHANGED <<nextStateId, allocated, returned, pageRest, serverVars, viewVars>>

\* dfaToDot(dfa) on the DFA of an NFA returned before
CallDfaToDot ==
    /\ calls < MaxCalls
    /\ calls' = calls + 1
    /\ \E i \in 1..Len(returned) :
          last' = Call("dfaToDot", <<>>, nextStateId, TRUE, dfaToDot(nfaToDfa(returned[i])))
    /\ UNCHANGED <<nextStateId, allocated, returned, pageRest, serverVars, viewVars>>

NextCalls ==
    \/ CallResetIds
    \/ CallRegexToPostfix
    \/ CallPostfixToNFA
    \/ CallNfaToDfa
    \/ CallNfaToDot
    \/ CallDfaToDot

InitCalls ==
    /\ re = samples[1]
    /\ PageInit
    /\ ServerInit
    /\ csvExists = FALSE
    /\ CallsInit
    /\ ViewInit

SpecCalls == InitCalls /\ [][NextCalls]_vars

\* ------------------------------------------------------ reference semantics
Range(xs) == {xs[i] : i \in 1..Len(xs)}

\* states reachable from S by zero or more epsilon transitions
RECURSIVE EpsReach(_, _)
EpsReach(n, S) ==
    LET T == S \cup {t.to : t \in {x \in Range(n.transitions) : x.from \in S /\ x.symbol = null}}
    IN  IF T = S THEN S ELSE EpsReach(n, T)

SymReach(n, S, c) ==
    {t.to : t \in {x \in Range(n.transitions) : x.from \in S /\ x.symbol = c}}

RECURSIVE NfaRun(_, _, _)
NfaRun(n, S, w) ==
    IF Len(w) = 0 THEN S
    ELSE NfaRun(n, EpsReach(n, SymReach(n, S, Head(w))), Tail(w))

\* direct simulation of the NFA
NfaAccepts(n, w) == n.accept \in NfaRun(n, EpsReach(n, {n.start}), w)

DfaNext(d, q, c) ==
    LET I == {i \in 1..Len(d.transitions) :
                d.transitions[i].from = q /\ d.transitions[i].symbol = c}
    IN  IF I = {} THEN -1
        ELSE d.transitions[CHOOSE i \in I : \A j \in I : i <= j].to

RECURSIVE DfaRun(_, _, _)
DfaRun(d, q, w) ==
    IF Len(w) = 0 THEN q ELSE DfaRun(d, DfaNext(d, q, Head(w)), Tail(w))

\* run of the DFA from state 0; a missing transition leads to -1 and rejects
DfaAccepts(d, w) == InSeq(DfaRun(d, 0, w), d.acceptStates)

\* the regular language of a parse tree
RECURSIVE Matches(_, _)
Matches(t, w) ==
    IF t[1] = "lit" THEN w = << t[2] >>
    ELSE IF t[1] = "grp" THEN Matches(t[2], w)
    ELSE IF t[1] = "star"
         THEN \/ Len(w) = 0
              \/ \E i \in 1..Len(w) :
                    Matches(t[2], SubSeq(w, 1, i)) /\ Matches(t, SubSeq(w, i + 1, Len(w)))
    ELSE IF t[1] = "cat"
         THEN \E i \in 0..Len(w) :
                    Matches(t[2], SubSeq(w, 1, i)) /\ Matches(t[3], SubSeq(w, i + 1, Len(w)))
    ELSE Matches(t[2], w) \/ Matches(t[3], w)

\* operands first, then the operator
RECURSIVE PostOrder(_)
PostOrder(t) ==
    IF t[1] = "lit" THEN << t[2] >>
    ELSE IF t[1] = "grp" THEN PostOrder(t[2])
    ELSE IF t[1] = "star" THEN PostOrder(t[2]) \o <<"*">>
    ELSE IF t[1] = "cat" THEN PostOrder(t[2]) \o PostOrder(t[3]) \o <<".">>
    ELSE PostOrder(t[2]) \o PostOrder(t[3]) \o <<"|">>

Words == StringsOver(Literals, MaxStrLen)

ShortWords == StringsOver(Literals, MaxWordLen)

\* regexToPostfix / postfixToNFA / nfaToDfa has just returned its result
PostfixBuilt == pc = "postfixToNFA"
NfaBuilt == pc = "nfaToDfa"
DfaBuilt == pc = "nfaToDot"

\* the well-formed patterns, each with its parse tree
Parsed == {<<Render(t), t>> : t \in Trees}

\* the DFA from state q and the NFA from the closed set S agree on every
\* string over A of length at most k
RECURSIVE AgreeFrom(_, _, _, _, _, _)
AgreeFrom(n, d, S, q, A, k) ==
    /\ InSeq(q, d.acceptStates) <=> n.accept \in S
    /\ k > 0 => \A c \in A :
                    AgreeFrom(n, d, EpsReach(n, SymReach(n, S, c)), DfaNext(d, q, c), A, k - 1)

\* --------------------------------------------------------------------- C1
\* C1: the DFA and the direct NFA simulation accept the same strings over
\* the symbols of the automaton, up to length MaxStrLen
C1_DfaEquivalentToNfa ==
    DfaBuilt =>
        AgreeFrom(nfa, dfa, EpsReach(nfa, {nfa.start}), 0,
                  {t.symbol : t \in Range(nfa.transitions)} \ {null}, MaxStrLen)

C1_Witness ==
    /\ DfaBuilt
    /\ re = samples[2]
    /\ DfaAccepts(dfa, <<"a", "b", "b">>) /\ NfaAccepts(nfa, <<"a", "b", "b">>)
    /\ ~DfaAccepts(dfa, <<"a", "b", "a">>) /\ ~NfaAccepts(nfa, <<"a", "b", "a">>)

\* --------------------------------------------------------------------- C2
\* C2: the returned DFA has at most one transition per (from, symbol)
C2_Deterministic ==
    DfaBuilt =>
        \A i, j \in 1..Len(dfa.transitions) :
            (dfa.transitions[i].from = dfa.transitions[j].from
             /\ dfa.transitions[i].symbol = dfa.transitions[j].symbol) => i = j

C2_Witness ==
    /\ DfaBuilt
    /\ \E i, j \in 1..Len(dfa.transitions) :
          /\ i # j
          /\ dfa.transitions[i].from = dfa.transitions[j].from
          /\ dfa.transitions[i].symbol # dfa.transitions[j].symbol
    /\ \E i, j \in 1..Len(nfa.transitions) :
          i # j /\ nfa.transitions[i].symbol = "a" /\ nfa.transitions[j].symbol = "a"

\* --------------------------------------------------------------------- C3
\* C3: a well-formed pattern compiles, and its NFA accepts exactly the
\* language of its parse tree
C3_NfaLanguage ==
    \A p \in Parsed :
        p[1] = re =>
            /\ pc # "failed"
            /\ NfaBuilt => \A w \in ShortWords : NfaAccepts(nfa, w) <=> Matches(p[2], w)

C3_Witness ==
    /\ NfaBuilt
    /\ re = <<"a", "|", "b", "a">>
    /\ NfaAccepts(nfa, <<"a">>)
    /\ NfaAccepts(nfa, <<"b", "a">>)
    /\ ~NfaAccepts(nfa, <<"a", "a">>)

\* --------------------------------------------------------------------- C4
EndsInAbb(w) == Len(w) >= 3 /\ SubSeq(w, Len(w) - 2, Len(w)) = <<"a", "b", "b">>

\* C4: the DFA of (a|b)*abb accepts exactly the strings ending in abb
C4_SampleDfa ==
    (DfaBuilt /\ re = samples[3]) =>
        /\ \A w \in Words : DfaAccepts(dfa, w) <=> EndsInAbb(w)
        /\ \A w \in {<<"a", "b", "b">>, <<"a", "a", "b", "b">>, <<"b", "a", "b", "b">>,
                     <<"a", "a", "a", "a", "b", "b">>} : DfaAccepts(dfa, w)
        /\ \A w \in {<<>>, <<"a", "b">>, <<"a", "b", "b", "b">>} : ~DfaAccepts(dfa, w)

C4_Witness == DfaBuilt /\ re = samples[3] /\ Len(dfa.states) = 5 /\ Len(dfa.acceptStates) = 1

\* --------------------------------------------------------------------- C5
\* C5: the three documented conversions, and for every well-formed pattern
\* the postfix string is the post-order of its parse tree
C5_Postfix ==
    PostfixBuilt =>
        /\ re = samples[1] => postfix = <<"a", "b", "|">>
        /\ re = samples[2] => postfix = <<"a", "b", "*", ".">>
        /\ re = samples[3] => postfix = <<"a", "b", "|", "*", "a", ".", "b", ".", "b", ".">>
        /\ \A p \in Parsed : p[1] = re => postfix = PostOrder(p[2])

C5_Witness ==
    /\ PostfixBuilt
    /\ re = <<"a", "|", "b", "|", "a">>
    /\ postfix = <<"a", "b", "|", "a", "|">>

\* --------------------------------------------------------------------- C6
\* the relabeling that maps the i-th state of n1 to the i-th state of n2
Relabel(n1, n2, id) == n2.states[CHOOSE i \in 1..Len(n1.states) : n1.states[i] = id]

Isomorphic(n1, n2) ==
    /\ Len(n1.states) = Len(n2.states)
    /\ Len(n1.transitions) = Len(n2.transitions)
    /\ \A i, j \in 1..Len(n1.states) :
          i # j => n1.states[i] # n1.states[j] /\ n2.states[i] # n2.states[j]
    /\ Relabel(n1, n2, n1.start) = n2.start
    /\ Relabel(n1, n2, n1.accept) = n2.accept
    /\ \A i \in 1..Len(n1.transitions) :
          n2.transitions[i] = Tr(Relabel(n1, n2, n1.transitions[i].from),
                                 Relabel(n1, n2, n1.transitions[i].to),
                                 n1.transitions[i].symbol)

\* C6: when a pattern compiled after resetIds gave an NFA, compiling it
\* again after resetIds gives an NFA isomorphic to the first
C6_Reproducible ==
    \A i, j \in 1..Len(history) :
        (history[i].re = history[j].re /\ history[i].ok) =>
            history[j].ok /\ Isomorphic(history[i].nfa, history[j].nfa)

C6_Witness ==
    /\ Len(history) >= 2
    /\ history[1].re = history[2].re
    /\ history[1].ok /\ history[2].ok
    /\ Len(history[2].nfa.states) >= 6

\* --------------------------------------------------------------------- C7
\* C7: the NFA of a single literal c has 2 states, allocated by the literal
\* step from the counter, and the one transition start -c-> accept
C7_SingleLiteral ==
    \A c \in Literals :
        re = <<c>> =>
            /\ pc # "failed"
            /\ NfaBuilt =>
                  /\ Len(nfa.states) = 2
                  /\ nfa.start # nfa.accept
                  /\ Range(nfa.states) = {nfa.start, nfa.accept}
                  /\ nfa.transitions = << Tr(nfa.start, nfa.accept, c) >>
                  /\ {nfa.start, nfa.accept} = {nextStateId - 2, nextStateId - 1}

C7_Witness == NfaBuilt /\ re = <<"b">> /\ Len(nfa.transitions) = 1

\* --------------------------------------------------------------------- C8
\* C8: in a returned NFA start and accept are states, states has no
\* duplicate and holds both ends of every transition
C8_NfaStates ==
    NfaBuilt =>
        /\ InSeq(nfa.start, nfa.states)
        /\ InSeq(nfa.accept, nfa.states)
        /\ \A i, j \in 1..Len(nfa.states) : i # j => nfa.states[i] # nfa.states[j]
        /\ \A i \in 1..Len(nfa.transitions) :
              InSeq(nfa.transitions[i].from, nfa.states)
              /\ InSeq(nfa.transitions[i].to, nfa.states)

C8_Witness ==
    /\ NfaBuilt
    /\ Len(nfa.states) = 6
    /\ \E i \in 1..Len(postfix) : postfix[i] = "."
    /\ \E i \in 1..Len(postfix) : postfix[i] = "*"

\* --------------------------------------------------------------------- C9
\* C9: postfixToNFA fails only with the stack-length error, never by
\* reading a fragment popped from an empty stack
C9_OnlyStackLengthError == pc = "failed" => err = StackLengthError

\* -------------------------------------------------------------------- C10
Count(r, c, k) == Cardinality({i \in 1..k : r[i] = c})

\* a ')' with no open '(' or a '(' never closed
Mismatched(r) ==
    \/ \E k \in 1..Len(r) : Count(r, ")", k) > Count(r, "(", k)
    \/ Count(r, "(", Len(r)) # Count(r, ")", Len(r))

\* C10: a pattern with mismatched parentheses never gets an automaton
C10_MismatchedFails == Mismatched(re) => ~NfaBuilt

\* -------------------------------------------------------------------- C11
\* C11: resetIds leaves the counter at zero; while the tokens of one build are
\* processed, the ids held by the fragments on the stack are pairwise
\* distinct and all below the counter; and the NFA a successful postfixToNFA
\* returns has exactly the states 0 .. n-1, n being the counter's value.
C11_FreshIds ==
    /\ pc = "regexToPostfix" => nextStateId = 0
    /\ pc = "tokens" =>
         \A i \in 1..Len(stack) : \A k \in 1..Len(stack[i].states) :
            /\ stack[i].states[k] \in 0..(nextStateId - 1)
            /\ \A j \in 1..Len(stack) : \A l \in 1..Len(stack[j].states) :
                  stack[i].states[k] = stack[j].states[l] => (i = j /\ k = l)
    /\ NfaBuilt =>
         /\ Len(nfa.states) = nextStateId
         /\ Range(nfa.states) = 0..(Len(nfa.states) - 1)

\* the second build of a page has returned an NFA with a union in it
C11_Witness ==
    /\ NfaBuilt
    /\ Len(history) = 1
    /\ InSeq("|", postfix)
    /\ Len(nfa.states) >= 6

\* -------------------------------------------------------------------- C12
\* C12: the stages of an artifact computation run in the order resetIds,
\* regexToPostfix, postfixToNFA, nfaToDfa, nfaToDot, dfaToDot, with resetIds
\* once at the head of each computation; and the NFA and the DFA shown for a
\* pattern are the ones a computation from a zero counter gives, whatever
\* was selected before.
C12_Order ==
    pc' # pc =>
        <<pc, pc'>> \in { <<"resetIds", "regexToPostfix">>,
                          <<"regexToPostfix", "postfixToNFA">>,
                          <<"postfixToNFA", "tokens">>,
                          <<"tokens", "nfaToDfa">>,
                          <<"tokens", "failed">>,
                          <<"nfaToDfa", "subsets">>,
                          <<"subsets", "nfaToDot">>,
                          <<"nfaToDot", "dfaToDot">>,
                          <<"dfaToDot", "done">>,
                          <<"done", "resetIds">> }

C12_Shown ==
    pc = "done" =>
        LET shown == history[Len(history)]
            fresh == postfixToNFA(regexToPostfix(shown.re), 0)
        IN  /\ nextStateId = fresh.next
            /\ shown.ok
            /\ fresh.ok
            /\ shown.nfa = fresh.nfa
            /\ shown.dfa = nfaToDfa(fresh.nfa)

C12_ResetThenStages == [][C12_Order]_vars /\ []C12_Shown

\* a second pattern is shown after a different first one
C12_Witness ==
    /\ pc = "done"
    /\ Len(history) = 2
    /\ history[1].re # history[2].re
    /\ Len(history[2].nfa.states) >= 4

\* -------------------------------------------------------------------- C13
\* the numbers written in one line of a graph text, in order
RECURSIVE NumbersIn(_, _, _, _, _)
NumbersIn(line, i, cur, inRun, acc) ==
    IF i > Len(line) THEN (IF inRun THEN Append(acc, cur) ELSE acc)
    ELSE IF InSeq(line[i], DigitChars)
         THEN NumbersIn(line, i + 1, cur * 10 + DigitValue(line[i]), TRUE, acc)
         ELSE NumbersIn(line, i + 1, 0, FALSE, IF inRun THEN Append(acc, cur) ELSE acc)

\* the numbers written in each line of the text
Numbers(text) == [l \in 1..Len(text) |-> NumbersIn(text[l], 1, 0, FALSE, <<>>)]

\* how many times the id is written, nums being the numbers of the lines
Mentions(nums, id) ==
    Cardinality({ lk \in UNION { {<<l, k>> : k \in 1..Len(nums[l])} : l \in 1..Len(nums) }
                  : nums[lk[1]][lk[2]] = id })

\* how many doublecircle lines the text has for the id
Markers(text, nums, id) ==
    Cardinality({ l \in 1..Len(text) :
                    /\ text[l][Len(text[l])] = " [shape=doublecircle];"
                    /\ nums[l] = <<id>> })

\* how many transition ends are the id
Ends(trans, id) ==
    Cardinality({i \in 1..Len(trans) : trans[i].from = id})
    + Cardinality({i \in 1..Len(trans) : trans[i].to = id})

Referenced(trans) == {trans[i].from : i \in 1..Len(trans)} \cup {trans[i].to : i \in 1..Len(trans)}

MarkedOnce(text, states, acc) ==
    LET nums == Numbers(text)
    IN  \A id \in states : Markers(text, nums, id) = (IF id \in acc THEN 1 ELSE 0)

WrittenPerEnd(text, start, states, acc, trans) ==
    LET nums == Numbers(text)
    IN  /\ Referenced(trans) \subseteq states
        /\ \A id \in states :
              Mentions(nums, id) = Ends(trans, id) + (IF id = start THEN 1 ELSE 0)
                                   + (IF id \in acc THEN 1 ELSE 0)
        /\ \A id \in Referenced(trans) : Mentions(nums, id) >= 1

WrittenOnce(text, trans) ==
    LET nums == Numbers(text)
    IN  \A id \in Referenced(trans) : Mentions(nums, id) = 1

\* C13 (as stated): in the texts of nfaToDot and dfaToDot every state id
\* referenced by a transition is written exactly once, every accepting state
\* has exactly one doublecircle line and no other state has one.
C13_WrittenOncePerState ==
    pc = "done" =>
        /\ WrittenOnce(nfaDot, nfa.transitions)
        /\ WrittenOnce(dfaDot, dfa.transitions)
        /\ MarkedOnce(nfaDot, Range(nfa.states), {nfa.accept})
        /\ MarkedOnce(dfaDot, Range(dfa.states), Range(dfa.acceptStates))

\* C13 (amended): in the texts of nfaToDot and dfaToDot every state id is
\* written once for each transition end it is, once more when it is the start
\* state and once more when it is accepting, so every referenced id is
\* written at least once; every accepting state has exactly one doublecircle
\* line and no other state has one.
C13_WrittenPerEndMarkedOnce ==
    pc = "done" =>
        /\ WrittenPerEnd(nfaDot, nfa.start, Range(nfa.states), {nfa.accept}, nfa.transitions)
        /\ WrittenPerEnd(dfaDot, dfa.start, Range(dfa.states), Range(dfa.acceptStates),
                         dfa.transitions)
        /\ MarkedOnce(nfaDot, Range(nfa.states), {nfa.accept})
        /\ MarkedOnce(dfaDot, Range(dfa.states), Range(dfa.acceptStates))

\* both texts of "ab*" are written: two accepting DFA states
C13_Witness ==
    /\ pc = "done"
    /\ re = samples[2]
    /\ Len(dfa.acceptStates) = 2
    /\ Len(dfaDot) > 6
    /\ Len(nfaDot) > 6

\* -------------------------------------------------------------------- C14
\* C14: in the DFA nfaToDfa returns, a state id is in acceptStates exactly
\* when the NFA subset it stands for contains nfa.accept, and acceptStates
\* has no id twice.
C14_AcceptIffSubsetHasAccept ==
    DfaBuilt =>
        /\ \A id \in Range(dfa.states) :
              InSeq(id, dfa.acceptStates) <=> nfa.accept \in Range(dfaStatesList[id + 1])
        /\ \A i, j \in 1..Len(dfa.acceptStates) :
              dfa.acceptStates[i] = dfa.acceptStates[j] => i = j
        /\ Range(dfa.acceptStates) \subseteq Range(dfa.states)

\* a DFA with accepting and non-accepting states, where the accept id is not
\* the smallest member of an accepting subset
C14_Witness ==
    /\ DfaBuilt
    /\ \E id \in Range(dfa.states) : ~InSeq(id, dfa.acceptStates)
    /\ \E id \in Range(dfa.acceptStates) :
          \E q \in Range(dfaStatesList[id + 1]) : q < nfa.accept

\* -------------------------------------------------------------------- C15
\* C15: the DFA has a transition from a state on a symbol of the alphabet
\* exactly when some NFA state of the state's subset has a transition on that
\* symbol; every transition is on a symbol of the alphabet; no DFA state
\* stands for the empty subset.
C15_TransitionIffMoveNonEmpty ==
    DfaBuilt =>
        /\ \A id \in Range(dfa.states) : \A sym \in Range(alphabet) :
              (\E i \in 1..Len(dfa.transitions) :
                  dfa.transitions[i].from = id /\ dfa.transitions[i].symbol = sym)
              <=> (\E i \in 1..Len(nfa.transitions) :
                      /\ nfa.transitions[i].from \in Range(dfaStatesList[id + 1])
                      /\ nfa.transitions[i].symbol = sym)
        /\ \A i \in 1..Len(dfa.transitions) : InSeq(dfa.transitions[i].symbol, alphabet)
        /\ \A i \in 1..Len(dfaStatesList) : Len(dfaStatesList[i]) > 0

\* a DFA over two symbols in which some state has no transition on a symbol
C15_Witness ==
    /\ DfaBuilt
    /\ Len(alphabet) = 2
    /\ \E id \in Range(dfa.states) : \E sym \in Range(alphabet) :
          \A i \in 1..Len(dfa.transitions) :
              ~(dfa.transitions[i].from = id /\ dfa.transitions[i].symbol = sym)

\* -------------------------------------------------------------------- C17
\* the places i where a '.' belongs between re[i] and re[i+1]
Gaps(w) ==
    {i \in 1..(Len(w) - 1) : w[i] \notin {"(", "|"} /\ w[i + 1] \notin {"*", "|", ")"}}

\* C17: insertConcats returns its input with one '.' put between adjacent
\* characters c and d exactly when c is neither '(' nor '|' and d is none of
\* '*', '|', ')': the characters of the input keep their order, each moved
\* right by the number of gaps before it, every gap holds a '.', and nothing
\* else is in the output; the empty input gives the empty output.
C17_InsertConcats ==
    PostfixBuilt =>
        LET out == insertConcats(re)
            G == Gaps(re)
            At(i) == i + Cardinality({g \in G : g < i})
        IN  /\ Len(out) = Len(re) + Cardinality(G)
            /\ \A i \in 1..Len(re) : out[At(i)] = re[i]
            /\ \A g \in G : out[At(g) + 1] = "."
            /\ re = <<>> => out = <<>>

\* a pattern with a gap that takes a '.' and gaps before ')' and after '('
\* that take none
C17_Witness ==
    /\ PostfixBuilt
    /\ re = <<"(", "a", "b", ")">>
    /\ insertConcats(re) = <<"(", "a", ".", "b", ")">>

\* -------------------------------------------------------------------- C18
\* C18 (as stated): regexToPostfix returns for every input, and the postfix
\* string it returns holds neither '(' nor ')'.
C18_NoParenthesisInPostfix ==
    PostfixBuilt => \A i \in 1..Len(postfix) : postfix[i] \notin {"(", ")"}

\* -------------------------------------------------------------------- C19
\* the ids of all fragments on the stack
StackIds == UNION {Range(stack[i].states) : i \in 1..Len(stack)}

\* a step of the token loop on the token c with at least k operands
TokenOn(c, k) ==
    /\ pc = "tokens"
    /\ pos <= Len(postfix)
    /\ postfix[pos] = c
    /\ Len(stack) >= k
    /\ pos' = pos + 1

\* the star step with the given target of the edge back from n.accept
StarPushes(n, top, backTo) ==
    LET s == top.start
        f == top.accept
    IN  /\ s = nextStateId
        /\ f = nextStateId + 1
        /\ nextStateId' = nextStateId + 2
        /\ {s, f} \cap StackIds = {}
        /\ Len(top.transitions) = Len(n.transitions) + 4
        /\ Range(top.transitions) =
              Range(n.transitions) \cup { Tr(s, n.start, null), Tr(s, f, null),
                                          Tr(n.accept, backTo, null), Tr(n.accept, f, null) }
        /\ Len(top.states) = Len(n.states) + 2
        /\ Range(top.states) = Range(n.states) \cup {s, f}

\* C19 (as stated): on a '*' token the fragment n is popped, fresh s and f
\* are allocated, the four epsilon transitions s->n.start, s->f, n.accept->s,
\* n.accept->f are added, and the fragment from s to f with all of n's states
\* and transitions is pushed.
C19_StarBackToS ==
    [][TokenOn("*", 1) =>
          /\ Len(stack') = Len(stack)
          /\ Pop(stack') = Pop(stack)
          /\ StarPushes(stack[Len(stack)], stack'[Len(stack')], stack'[Len(stack')].start)]_vars

\* C19 (amended): on a '*' token the fragment n is popped, fresh s and f are
\* allocated, the four epsilon transitions s->n.start, s->f,
\* n.accept->n.start, n.accept->f are added, and the fragment from s to f
\* with all of n's states and transitions is pushed.
C19_StarBackToStart ==
    [][TokenOn("*", 1) =>
          /\ Len(stack') = Len(stack)
          /\ Pop(stack') = Pop(stack)
          /\ StarPushes(stack[Len(stack)], stack'[Len(stack')], stack[Len(stack)].start)]_vars

\* a '*' token has just been applied to a fragment
C19_Witness ==
    /\ pc = "tokens"
    /\ pos > 1
    /\ postfix[pos - 1] = "*"
    /\ Len(stack) >= 1
    /\ stack[Len(stack)].start = nextStateId - 2
    /\ Len(stack[Len(stack)].transitions) >= 5

\* -------------------------------------------------------------------- C20
\* C20: on a '.' token n2 and then n1 are popped, no state is allocated, the
\* one new transition is the epsilon edge n1.accept->n2.start, and the
\* fragment pushed goes from n1.start to n2.accept with the states and the
\* transitions of n1 and n2 together.
C20_ConcatStep ==
    [][TokenOn(".", 2) =>
          LET n2 == stack[Len(stack)]
              n1 == stack[Len(stack) - 1]
              top == stack'[Len(stack')]
          IN  /\ Len(stack') = Len(stack) - 1
              /\ Pop(stack') = Pop(Pop(stack))
              /\ nextStateId' = nextStateId
              /\ top.start = n1.start
              /\ top.accept = n2.accept
              /\ Len(top.transitions) = Len(n1.transitions) + Len(n2.transitions) + 1
              /\ Range(top.transitions) =
                    Range(n1.transitions) \cup Range(n2.transitions)
                    \cup { Tr(n1.accept, n2.start, null) }
              /\ Len(top.states) = Len(n1.states) + Len(n2.states)
              /\ Range(top.states) = Range(n1.states) \cup Range(n2.states)]_vars

\* a '.' token has just joined two fragments of different sizes
C20_Witness ==
    /\ pc = "tokens"
    /\ pos > 1
    /\ postfix[pos - 1] = "."
    /\ Len(stack) >= 1
    /\ Len(stack[Len(stack)].states) >= 6
    /\ nextStateId = Len(stack[Len(stack)].states)

\* -------------------------------------------------------------------- C16
RequestOver == phase \in {"closed", "crashed"}

Responses == SelectSeq(trace, LAMBDA e : e.ev = "respond")

Happened(e) == \E i \in 1..Len(trace) : trace[i] = e

\* the body is not valid JSON, or good or bad is not an array with items
Rejected ==
    \/ content.json = "invalid"
    \/ content.good # "items"
    \/ content.bad # "items"

\* C16 (as stated): a POST /score request gets exactly one response; a body
\* that is not valid JSON or lacks a non-empty good or bad gets 400 before
\* any file is written or script run; the generator runs only after the
\* input files are written, the scorer only after the generator exited with
\* status 0; a failed script is followed by the 500 response and nothing
\* else; 200 is sent only after both scripts exited with status 0.
C16_OneResponseInOrder ==
    RequestOver =>
        /\ Len(Responses) = 1
        /\ trace[Len(trace)].ev = "respond"
        /\ Rejected => trace = << Event("respond", "", 400) >>
        /\ Happened(Event("respond", "", 400)) => Len(trace) = 1
        /\ \A i \in 1..Len(trace) :
              /\ (trace[i].ev \in {"run", "spawn error"} /\ trace[i].arg = "generator") =>
                    (i = 3 /\ trace[1] = Event("write", "good.txt", 0)
                           /\ trace[2] = Event("write", "bad.txt", 0))
              /\ (trace[i].ev \in {"run", "spawn error"} /\ trace[i].arg = "scorer") =>
                    (i > 1 /\ trace[i - 1] = Event("run", "generator", 0))
              /\ (trace[i].ev = "spawn error" \/ (trace[i].ev = "run" /\ trace[i].code # 0)) =>
                    (i + 1 = Len(trace) /\ trace[i + 1] = Event("respond", "", 500))
              /\ trace[i] = Event("respond", "", 200) =>
                    (Happened(Event("run", "generator", 0))
                     /\ Happened(Event("run", "scorer", 0)))

\* -------------------------------------------------------------------- C21
\* C21: on a '|' token n2 and then n1 are popped, fresh s and f are
\* allocated, exactly the four epsilon transitions s->n1.start, s->n2.start,
\* n1.accept->f, n2.accept->f are added, and the fragment from s to f with
\* the states and transitions of both operands is pushed.
C21_UnionStep ==
    [][TokenOn("|", 2) =>
          LET n2 == stack[Len(stack)]
              n1 == stack[Len(stack) - 1]
              top == stack'[Len(stack')]
              s == top.start
              f == top.accept
          IN  /\ Len(stack') = Len(stack) - 1
              /\ Pop(stack') = Pop(Pop(stack))
              /\ s = nextStateId
              /\ f = nextStateId + 1
              /\ nextStateId' = nextStateId + 2
              /\ {s, f} \cap StackIds = {}
              /\ Len(top.transitions) = Len(n1.transitions) + Len(n2.transitions) + 4
              /\ Range(top.transitions) =
                    Range(n1.transitions) \cup Range(n2.transitions)
                    \cup { Tr(s, n1.start, null), Tr(s, n2.start, null),
                           Tr(n1.accept, f, null), Tr(n2.accept, f, null) }
              /\ Len(top.states) = Len(n1.states) + Len(n2.states) + 2
              /\ Range(top.states) = Range(n1.states) \cup Range(n2.states) \cup {s, f}]_vars

\* a '|' token has just joined two fragments, the second larger than a literal
C21_Witness ==
    /\ pc = "tokens"
    /\ pos > 1
    /\ postfix[pos - 1] = "|"
    /\ Len(stack) >= 1
    /\ stack[Len(stack)].start = nextStateId - 2
    /\ Len(stack[Len(stack)].states) >= 8

\* -------------------------------------------------------------------- C22
\* the DFA states reachable from the states of S along DFA transitions
RECURSIVE DfaReach(_, _)
DfaReach(d, S) ==
    LET T == S \cup {t.to : t \in {x \in Range(d.transitions) : x.from \in S}}
    IN  IF T = S THEN S ELSE DfaReach(d, T)

\* the place of the first transition into state j
FirstInto(d, j) ==
    CHOOSE i \in 1..Len(d.transitions) :
        /\ d.transitions[i].to = j
        /\ \A k \in 1..(i - 1) : d.transitions[k].to # j

\* C22: in the DFA nfaToDfa returns, start is 0 and stands for the epsilon
\* closure of {nfa.start}; states is 0 .. n-1 in this order; ids follow the
\* breadth-first discovery order (transitions are listed by source state in
\* ascending order, and each state after 0 is first entered from a state with
\* a smaller id and later in the list than every state with a smaller id);
\* every transition's ends are states; every state is reachable from 0.
C22_DfaShape ==
    DfaBuilt =>
        LET n == Len(dfa.states)
        IN  /\ dfa.start = 0
            /\ Range(dfaStatesList[1]) = EpsReach(nfa, {nfa.start})
            /\ n = Len(dfaStatesList)
            /\ \A i \in 1..n : dfa.states[i] = i - 1
            /\ \A i \in 1..Len(dfa.transitions) :
                  /\ dfa.transitions[i].from \in 0..(n - 1)
                  /\ dfa.transitions[i].to \in 0..(n - 1)
                  /\ i > 1 => dfa.transitions[i - 1].from <= dfa.transitions[i].from
            /\ \A j \in 1..(n - 1) :
                  /\ \E i \in 1..Len(dfa.transitions) : dfa.transitions[i].to = j
                  /\ dfa.transitions[FirstInto(dfa, j)].from < j
                  /\ j > 1 => FirstInto(dfa, j - 1) < FirstInto(dfa, j)
            /\ DfaReach(dfa, {0}) = 0..(n - 1)

\* a DFA of four or more states whose state 0 is a closure of several states
C22_Witness ==
    /\ DfaBuilt
    /\ Len(dfa.states) >= 4
    /\ Len(dfaStatesList[1]) >= 3

\* -------------------------------------------------------------------- C23
SubsetsRunning == pc \in {"subsets", "nfaToDot"}

\* C23: during and after nfaToDfa, the subsets standing for distinct DFA ids
\* are distinct as sets; the map has one entry per subset, keyed by the
\* subset's key, which no other subset has; the target of every recorded
\* transition is the id of the subset that equals, as a set, the closure of
\* the move, in whatever order that closure was found; and the worklist index
\* only moves forward by one over a list that is only extended, so no subset
\* is processed twice.
C23_Identity ==
    SubsetsRunning =>
        /\ \A i, j \in 1..Len(dfaStatesList) :
              Range(dfaStatesList[i]) = Range(dfaStatesList[j]) => i = j
        /\ Len(dfaStatesMap) = Len(dfaStatesList)
        /\ \A i \in 1..Len(dfaStatesMap) :
              /\ dfaStatesMap[i].id = i - 1
              /\ dfaStatesMap[i].k = keyOf(dfaStatesList[i])
        /\ \A i \in 1..Len(transitions) :
              LET t == transitions[i]
              IN  Range(dfaStatesList[t.to + 1]) =
                     EpsReach(nfa, SymReach(nfa, Range(dfaStatesList[t.from + 1]), t.symbol))
        /\ idx <= Len(dfaStatesList)

C23_Worklist ==
    (SubsetsRunning /\ pc' \in {"subsets", "nfaToDot"}) =>
        /\ idx' \in {idx, idx + 1}
        /\ Len(dfaStatesList') >= Len(dfaStatesList)
        /\ SubSeq(dfaStatesList', 1, Len(dfaStatesList)) = dfaStatesList

C23_SubsetIdentity == []C23_Identity /\ [][C23_Worklist]_vars

\* a transition was recorded to an existing id whose subset was first found
\* in another order than the closure found now
C23_Witness ==
    /\ pc = "nfaToDot"
    /\ \E i \in 1..Len(transitions) :
          LET t == transitions[i]
              found == epsilonClosure(nfa, move(nfa, dfaStatesList[t.from + 1], t.symbol))
          IN  /\ found # dfaStatesList[t.to + 1]
              /\ Range(found) = Range(dfaStatesList[t.to + 1])

\* -------------------------------------------------------------------- C24
NoRepeats(xs) == \A i, j \in 1..Len(xs) : xs[i] = xs[j] => i = j

\* the set is closed under the epsilon transitions of n
EpsClosed(n, C) ==
    \A i \in 1..Len(n.transitions) :
        (n.transitions[i].from \in C /\ n.transitions[i].symbol = null)
            => n.transitions[i].to \in C

\* epsilonClosure(n, S) is the least epsilon-closed set that contains S
ClosureExact(n, S) ==
    LET C == epsilonClosure(n, S)
    IN  /\ NoRepeats(C)
        /\ Range(S) \subseteq Range(C)
        /\ EpsClosed(n, Range(C))
        /\ Range(C) = EpsReach(n, Range(S))

\* move(n, S, c) is the set of targets of the transitions on c leaving S
MoveExact(n, S, c) ==
    LET M == move(n, S, c)
    IN  /\ NoRepeats(M)
        /\ Range(M) = {n.transitions[i].to :
                          i \in {k \in 1..Len(n.transitions) :
                                    /\ n.transitions[k].from \in Range(S)
                                    /\ n.transitions[k].symbol = c}}

\* the state sets the closure and the move are tried on: every single state,
\* every pair with the start state, the empty set, and every subset the
\* subset construction found
TrialSets ==
    {<<q>> : q \in Range(nfa.states)} \cup {<<nfa.start, q>> : q \in Range(nfa.states) \ {nfa.start}}
    \cup {<<>>} \cup Range(dfaStatesList)

\* C24: for the NFA built (also one with epsilon cycles) and every state set
\* S tried, epsilonClosure returns exactly the states reachable from S by
\* zero or more epsilon transitions, and move returns exactly the targets of
\* the transitions on the symbol that leave S, with no epsilon step.
C24_ClosureAndMove ==
    DfaBuilt =>
        \A S \in TrialSets :
            /\ ClosureExact(nfa, S)
            /\ \A c \in Range(alphabet) : MoveExact(nfa, S, c)

\* the NFA has an epsilon cycle, and a move that differs from its closure
C24_Witness ==
    /\ DfaBuilt
    /\ \E q \in Range(nfa.states) :
          q \in EpsReach(nfa, SymReach(nfa, {q}, null))
    /\ \E S \in Range(dfaStatesList) : \E c \in Range(alphabet) :
          /\ Len(move(nfa, S, c)) > 0
          /\ Range(move(nfa, S, c)) # Range(epsilonClosure(nfa, move(nfa, S, c)))

\* -------------------------------------------------------------------- C25
C25_Bounded ==
    SubsetsRunning =>
        /\ \A i \in 1..Len(dfaStatesList) : NoRepeats(dfaStatesList[i])
        /\ \A i, j \in 1..Len(dfaStatesList) :
              dfaStatesList[i] = dfaStatesList[j] => i = j
        /\ Len(dfaStatesList) <= 2 ^ Len(nfa.states)

\* C25: a call of nfaToDfa returns, also for an NFA with epsilon cycles;
\* every closure it keeps holds each state once (a state is pushed when it
\* is added, so at most once), the worklist holds no subset twice, and the
\* DFA has at most 2^|nfa.states| states.
C25_Terminates == ((pc = "nfaToDfa") ~> (pc = "nfaToDot")) /\ []C25_Bounded

\* nfaToDfa has returned for an NFA with an epsilon cycle
C25_Witness ==
    /\ pc = "nfaToDot"
    /\ \E q \in Range(nfa.states) : q \in EpsReach(nfa, SymReach(nfa, {q}, null))
    /\ Len(dfa.states) >= 3

\* -------------------------------------------------------------------- C26
\* the entry edges and the labeled edges of a graph text, in text order
EntryLines(text) == SelectSeq(text, LAMBDA line : line[1] = "  start -> ")

EdgeLines(text) == SelectSeq(text, LAMBDA line : line[Len(line)] = "\"];")

\* the text has one entry edge, to start, and its labeled edges are the
\* transitions in list order, an epsilon transition labeled with the glyph
EdgesAsListed(text, start, trans) ==
    LET entries == EntryLines(text)
        edges == EdgeLines(text)
    IN  /\ Len(entries) = 1
        /\ NumbersIn(entries[1], 1, 0, FALSE, <<>>) = <<start>>
        /\ Len(edges) = Len(trans)
        /\ \A i \in 1..Len(trans) :
              /\ NumbersIn(edges[i], 1, 0, FALSE, <<>>) = <<trans[i].from, trans[i].to>>
              /\ edges[i][Len(edges[i]) - 2] = " [label=\""
              /\ edges[i][Len(edges[i]) - 1] =
                    (IF trans[i].symbol = null THEN epsilonGlyph ELSE trans[i].symbol)
              /\ trans[i].symbol # null => edges[i][Len(edges[i]) - 1] # epsilonGlyph

\* C26: the texts of nfaToDot and dfaToDot have exactly one entry edge, from
\* the start marker to the automaton's start state, and exactly one edge line
\* per transition, in the order of the transition list, labeled with the
\* epsilon glyph when the symbol is null and with the character otherwise.
C26_EdgesInOrder ==
    pc = "done" =>
        /\ EdgesAsListed(nfaDot, nfa.start, nfa.transitions)
        /\ EdgesAsListed(dfaDot, dfa.start, dfa.transitions)

\* both texts are written for an NFA with epsilon and symbol transitions and
\* a DFA with several transitions
C26_Witness ==
    /\ pc = "done"
    /\ Len(dfa.transitions) >= 3
    /\ \E i, j \in 1..Len(nfa.transitions) :
          nfa.transitions[i].symbol = null /\ nfa.transitions[j].symbol # null
    /\ nfa.start # 0

\* -------------------------------------------------------------------- C27
\* no transition of the fragment leaves its accept state or enters its start
EndsAreClean(frag) ==
    \A i \in 1..Len(frag.transitions) :
        /\ frag.transitions[i].from # frag.accept
        /\ frag.transitions[i].to # frag.start

\* C27: after every token every fragment on the stack has an accept state
\* without outgoing transition and a start state without incoming
\* transition, and so has the NFA postfixToNFA returns.
C27_CleanEnds ==
    /\ pc = "tokens" => \A i \in 1..Len(stack) : EndsAreClean(stack[i])
    /\ NfaBuilt => EndsAreClean(nfa)

\* the NFA of a well-formed pattern with a star and a concatenation is returned
C27_Witness ==
    /\ NfaBuilt
    /\ \E p \in Parsed : p[1] = re
    /\ InSeq("*", postfix)
    /\ InSeq(".", postfix)
    /\ Len(nfa.transitions) >= 6

\* ------------------------------------------------------- RegexVisualizer
\* the dot prop changes while the component is mounted: the cleanup of the
\* last effect clears its mounted flag and the effect runs again
ChangeDot ==
    /\ refCurrent
    /\ Len(effects) < MaxEffects
    /\ \E d \in Dots \ {effects[Len(effects)].dot} :
          effects' = Append([effects EXCEPT ![Len(effects)].mounted = FALSE],
                            Effect(d, TRUE, "pending"))
    /\ UNCHANGED <<refCurrent, container, pageVars, serverVars, callVars>>

\* the component unmounts: the cleanup of the last effect runs and the ref
\* is detached
Unmount ==
    /\ refCurrent
    /\ effects' = [effects EXCEPT ![Len(effects)].mounted = FALSE]
    /\ refCurrent' = FALSE
    /\ UNCHANGED <<container, pageVars, serverVars, callVars>>

\* the render of effect i resolves: the try block after the last await
RenderSucceeds(i) ==
    /\ effects[i].state = "pending"
    /\ effects' = [effects EXCEPT ![i].state = "rendered"]
    /\ container' = IF ~effects[i].mounted THEN container
                    ELSE IF refCurrent THEN Shown("svg", i, effects[i].mounted)
                    ELSE container
    /\ UNCHANGED <<refCurrent, pageVars, serverVars, callVars>>

\* an import or the render of effect i rejects: the catch block
RenderFails(i) ==
    /\ effects[i].state = "pending"
    /\ effects' = [effects EXCEPT ![i].state = "failed"]
    /\ container' = IF refCurrent THEN Shown("error", i, effects[i].mounted)
                    ELSE container
    /\ UNCHANGED <<refCurrent, pageVars, serverVars, callVars>>

NextView ==
    \/ ChangeDot
    \/ Unmount
    \/ \E i \in 1..Len(effects) : RenderSucceeds(i)
    \/ \E i \in 1..Len(effects) : RenderFails(i)

InitView ==
    /\ re = samples[1]
    /\ PageInit
    /\ ServerInit
    /\ csvExists = FALSE
    /\ CallsInit
    /\ ViewInit

SpecView == InitView /\ [][NextView]_vars

\* -------------------------------------------------------------------- C28
\* the NFA with every id moved up by k
Shifted(n, k) ==
    Frag(n.start + k, n.accept + k,
         [i \in 1..Len(n.states) |-> n.states[i] + k],
         [i \in 1..Len(n.transitions) |->
             Tr(n.transitions[i].from + k, n.transitions[i].to + k, n.transitions[i].symbol)])

C28_Counter ==
    /\ nextStateId = allocated
    /\ \A i \in 1..Len(returned) :
          /\ Range(returned[i].states) \subseteq 0..(nextStateId - 1)
          /\ \A j \in 1..Len(returned) :
                i # j => Range(returned[i].states) \cap Range(returned[j].states) = {}
    /\ (last.call = "postfixToNFA" /\ last.ok) =>
          /\ postfixToNFA(last.arg, 0).ok
          /\ last.out = Shifted(postfixToNFA(last.arg, 0).nfa, last.start)
          /\ Range(last.out.states) \subseteq last.start..(nextStateId - 1)

C28_WhoChanges ==
    nextStateId' # nextStateId => last'.call \in {"resetIds", "postfixToNFA"}

\* C28: after any sequence of calls the counter is the number of states
\* allocated since the last resetIds, those of failed builds included; only
\* resetIds and postfixToNFA change it; a build returns the NFA of a build
\* from a zero counter with every id moved up by the counter's value at its
\* start, and the ids of the NFAs returned since the last reset are disjoint.
C28_CounterCountsAllocations == []C28_Counter /\ [][C28_WhoChanges]_vars

\* a build has returned after a build that failed after allocating, and
\* after another build that returned, with no reset in between
C28_Witness ==
    /\ last.call = "postfixToNFA"
    /\ last.ok
    /\ Len(returned) = 2
    /\ returned[2].start # returned[1].start
    /\ last.start > Len(returned[1].states)

\* -------------------------------------------------------------------- C29
\* every render has completed
Settled == \A i \in 1..Len(effects) : effects[i].state # "pending"

\* C29: the container is only ever written by the render of the effect that
\* is current at that moment (never by a render started for an earlier dot,
\* neither with its SVG nor with its error text), so that once every render
\* has completed on a mounted component the container shows the result of
\* the latest dot
C29_OnlyCurrentRenderWrites ==
    /\ container.current
    /\ (Settled /\ refCurrent) => container.by = Len(effects)


====
